---- MODULE Spec2Model ----
(***************************************************************************)
(* Model of data/taxa/transform_species_csv.py: the species CSV            *)
(* transformation tool (legacy schema -> new schema with random 64-bit     *)
(* IDs), for plain text inputs and for ZIP archives.                       *)
(*                                                                         *)
(* Text is modelled as sequences of one-character strings, so that split,  *)
(* strip, replace, int() and str() are computed the way Python computes    *)
(* them.  Numbers beyond 31 bits (the new IDs) are three limbs in base     *)
(* 10^9, most significant first.                                           *)
(*                                                                         *)
(* A text file is the sequence of its decoded lines: the trial of          *)
(* encodings in parse_csv_file and in extract_csv_from_zip is not          *)
(* modelled, nor is a failure of os.unlink or of writing a file.  The      *)
(* loop that redraws a new ID while it is in used_ids is modelled by its   *)
(* result, a value of the generator's range that is not in used_ids.       *)
(***************************************************************************)
EXTENDS Integers, Sequences, FiniteSets, TLC

(***************************************************************************)
(* Bounds of the model.                                                    *)
(***************************************************************************)
\* longest input file, in lines
MaxLines == 3
\* how many values at the low end of its range the random source can return
Draws == 3

(***************************************************************************)
(* Python str operations, on sequences of characters.                      *)
(***************************************************************************)
IsSpace(c) == c \in {" ", "\t"}

RECURSIVE lstrip(_)
lstrip(s) == IF s = <<>> THEN s
             ELSE IF IsSpace(Head(s)) THEN lstrip(Tail(s)) ELSE s

RECURSIVE rstrip(_)
rstrip(s) == IF s = <<>> THEN s
             ELSE IF IsSpace(s[Len(s)]) THEN rstrip(SubSeq(s, 1, Len(s) - 1)) ELSE s

strip(s) == rstrip(lstrip(s))

startswith(s, p) == Len(s) >= Len(p) /\ SubSeq(s, 1, Len(p)) = p

endswith(s, p) == Len(s) >= Len(p) /\ SubSeq(s, Len(s) - Len(p) + 1, Len(s)) = p

\* sub in s
Contains(s, sub) ==
    \E i \in 1..(Len(s) - Len(sub) + 1) : SubSeq(s, i, i + Len(sub) - 1) = sub

\* s.split(sep) for a one-character separator
RECURSIVE split(_, _)
split(s, sep) ==
    IF \A i \in 1..Len(s) : s[i] # sep THEN <<s>>
    ELSE LET i == CHOOSE k \in 1..Len(s) :
                      s[k] = sep /\ \A j \in 1..(k - 1) : s[j] # sep
         IN  <<SubSeq(s, 1, i - 1)>> \o split(SubSeq(s, i + 1, Len(s)), sep)

\* s.split(sep, 1)
split1(s, sep) ==
    IF \A i \in 1..Len(s) : s[i] # sep THEN <<s>>
    ELSE LET i == CHOOSE k \in 1..Len(s) :
                      s[k] = sep /\ \A j \in 1..(k - 1) : s[j] # sep
         IN  <<SubSeq(s, 1, i - 1), SubSeq(s, i + 1, Len(s))>>

\* sep.join(parts)
RECURSIVE join(_, _)
join(parts, sep) ==
    IF parts = <<>> THEN <<>>
    ELSE IF Len(parts) = 1 THEN parts[1]
    ELSE parts[1] \o sep \o join(Tail(parts), sep)

\* the first occurrence of sub in s at or after position from, or 0
find(s, sub, from) ==
    LET at == {i \in from..(Len(s) - Len(sub) + 1) :
                   SubSeq(s, i, i + Len(sub) - 1) = sub}
    IN  IF at = {} THEN 0 ELSE CHOOSE i \in at : \A j \in at : i <= j

\* s[from:].replace(old, new)
RECURSIVE replace_from(_, _, _, _)
replace_from(s, old, new, from) ==
    LET i == find(s, old, from)
    IN  IF i = 0 THEN SubSeq(s, from, Len(s))
        ELSE SubSeq(s, from, i - 1) \o new
                 \o replace_from(s, old, new, i + Len(old))

\* s.replace(old, new): the non-overlapping occurrences, leftmost first
replace(s, old, new) == replace_from(s, old, new, 1)

\* s.lower(), for the letters file names are made of here
LowerChar(c) ==
    CASE c = "Z" -> "z" [] c = "I" -> "i" [] c = "P" -> "p"
      [] c = "C" -> "c" [] c = "S" -> "s" [] c = "V" -> "v"
      [] c = "T" -> "t" [] c = "X" -> "x" [] OTHER -> c

lower(s) == [i \in 1..Len(s) |-> LowerChar(s[i])]

(***************************************************************************)
(* int(text): surrounding whitespace, an optional sign, then decimal       *)
(* digits, single underscores allowed between digits.  Anything else       *)
(* raises ValueError.                                                      *)
(***************************************************************************)
Digits == <<"0", "1", "2", "3", "4", "5", "6", "7", "8", "9">>

IsDigit(c) == \E d \in 1..10 : Digits[d] = c

DigitVal(c) == (CHOOSE d \in 1..10 : Digits[d] = c) - 1

\* the text after whitespace and sign are removed
IntBody(s) ==
    LET t == strip(s)
    IN  IF t # <<>> /\ Head(t) \in {"+", "-"} THEN Tail(t) ELSE t

IntParses(s) ==
    LET b == IntBody(s)
    IN  /\ b # <<>>
        /\ \A i \in 1..Len(b) : IsDigit(b[i]) \/ b[i] = "_"
        /\ IsDigit(b[1]) /\ IsDigit(b[Len(b)])
        /\ \A i \in 1..(Len(b) - 1) : ~(b[i] = "_" /\ b[i + 1] = "_")

RECURSIVE DigitsValue(_, _)
DigitsValue(b, acc) ==
    IF b = <<>> THEN acc
    ELSE IF Head(b) = "_" THEN DigitsValue(Tail(b), acc)
    ELSE DigitsValue(Tail(b), 10 * acc + DigitVal(Head(b)))

\* int(s), defined where IntParses(s)
IntValue(s) ==
    LET t == strip(s)
        v == DigitsValue(IntBody(s), 0)
    IN  IF Head(t) = "-" THEN 0 - v ELSE v

(***************************************************************************)
(* Unbounded non-negative integers: <<a, b, c>> is a*10^18 + b*10^9 + c.   *)
(***************************************************************************)
Limb == 10 ^ 9

Big(n) == <<0, 0, n>>

BigAdd(x, y) ==
    LET c3 == x[3] + y[3]
        c2 == x[2] + y[2] + (c3 \div Limb)
        c1 == x[1] + y[1] + (c2 \div Limb)
    IN  <<c1, c2 % Limb, c3 % Limb>>

\* x - y, for x >= y
BigSub(x, y) ==
    LET b3 == IF x[3] < y[3] THEN 1 ELSE 0
        d3 == x[3] - y[3] + b3 * Limb
        b2 == IF x[2] - b3 < y[2] THEN 1 ELSE 0
        d2 == x[2] - b3 - y[2] + b2 * Limb
    IN  <<x[1] - b2 - y[1], d2, d3>>

BigLE(x, y) ==
    \/ x[1] < y[1]
    \/ x[1] = y[1] /\ x[2] < y[2]
    \/ x[1] = y[1] /\ x[2] = y[2] /\ x[3] <= y[3]

BigTimes10(x) ==
    LET x2 == BigAdd(x, x)
        x4 == BigAdd(x2, x2)
        x8 == BigAdd(x4, x4)
    IN  BigAdd(x8, x2)

RECURSIVE BigPow2(_)
BigPow2(n) == IF n = 0 THEN Big(1) ELSE LET h == BigPow2(n - 1) IN BigAdd(h, h)

RECURSIVE BigPow10(_)
BigPow10(n) == IF n = 0 THEN Big(1) ELSE BigTimes10(BigPow10(n - 1))

\* the nine decimal digits of one limb
LimbDigits(l) == [i \in 1..9 |-> Digits[((l \div (10 ^ (9 - i))) % 10) + 1]]

RECURSIVE DropZeros(_)
DropZeros(s) == IF Len(s) > 1 /\ Head(s) = "0" THEN DropZeros(Tail(s)) ELSE s

\* str(x)
BigStr(x) == DropZeros(LimbDigits(x[1]) \o LimbDigits(x[2]) \o LimbDigits(x[3]))

(***************************************************************************)
(* The literals of the program.                                            *)
(***************************************************************************)
\* 'SPECIES_NR'
SPECIES_NR ==
    <<"S", "P", "E", "C", "I", "E", "S", "_", "N", "R">>

\* 'NAME'
NAME ==
    <<"N", "A", "M", "E">>

\* 'GENUS'
GENUS ==
    <<"G", "E", "N", "U", "S">>

\* 'SPECIES_LU_VERSION'
SPECIES_LU_VERSION ==
    <<"S", "P", "E", "C", "I", "E", "S", "_", "L", "U", "_", "V", "E", "R",
      "S", "I", "O", "N">>

\* 'SPECIES_LU'
SPECIES_LU ==
    <<"S", "P", "E", "C", "I", "E", "S", "_", "L", "U">>

\* ';WAHR;'
WAHR ==
    <<";", "W", "A", "H", "R", ";">>

\* ';TRUE;'
TRUE_ ==
    <<";", "T", "R", "U", "E", ";">>

\* ';FALSCH;'
FALSCH ==
    <<";", "F", "A", "L", "S", "C", "H", ";">>

\* ';FALSE;'
FALSE_ ==
    <<";", "F", "A", "L", "S", "E", ";">>

\* 'SPECIES_NR;NAME;GENUS;SPECIES;SYNONYM;VALID_NR;VALID_NAME;PARENT_NR;PARENT_NAME'
NEW_HEADER ==
    <<"S", "P", "E", "C", "I", "E", "S", "_", "N", "R", ";", "N", "A", "M",
      "E", ";", "G", "E", "N", "U", "S", ";", "S", "P", "E", "C", "I", "E",
      "S", ";", "S", "Y", "N", "O", "N", "Y", "M", ";", "V", "A", "L", "I",
      "D", "_", "N", "R", ";", "V", "A", "L", "I", "D", "_", "N", "A", "M",
      "E", ";", "P", "A", "R", "E", "N", "T", "_", "N", "R", ";", "P", "A",
      "R", "E", "N", "T", "_", "N", "A", "M", "E">>

\* '.zip'
DOT_ZIP ==
    <<".", "z", "i", "p">>

\* '.csv'
DOT_CSV ==
    <<".", "c", "s", "v">>

\* '.txt'
DOT_TXT ==
    <<".", "t", "x", "t">>

SEMI == <<";">>

NL == <<"\n">>

\* Python's None (no path is the empty text)
None == <<>>

(***************************************************************************)
(* The inputs the model runs the program on.                               *)
(***************************************************************************)
\* 'SPECIES_NR;NAME;GENUS;SPECIES;AUTHOR;SYNONYM;VALID_NR;VALID_NAME;SECUNDUM'
OLD_HEADER ==
    <<"S", "P", "E", "C", "I", "E", "S", "_", "N", "R", ";", "N", "A", "M",
      "E", ";", "G", "E", "N", "U", "S", ";", "S", "P", "E", "C", "I", "E",
      "S", ";", "A", "U", "T", "H", "O", "R", ";", "S", "Y", "N", "O", "N",
      "Y", "M", ";", "V", "A", "L", "I", "D", "_", "N", "R", ";", "V", "A",
      "L", "I", "D", "_", "N", "A", "M", "E", ";", "S", "E", "C", "U", "N",
      "D", "U", "M">>

\* 'SPECIES_LU_VERSION;3.2'
LineVersion ==
    <<"S", "P", "E", "C", "I", "E", "S", "_", "L", "U", "_", "V", "E", "R",
      "S", "I", "O", "N", ";", "3", ".", "2">>

\* 'NAME;WAHR;v'
LineMetaWahr ==
    <<"N", "A", "M", "E", ";", "W", "A", "H", "R", ";", "v">>

\* ' x'
LineNoSemicolon ==
    <<" ", "x">>

\* a line of a space and a tab
LineBlank ==
    <<" ", "\t">>

\* '1;N;G;s;A;FALSCH;1;N;S'
RowValid ==
    <<"1", ";", "N", ";", "G", ";", "s", ";", "A", ";", "F", "A", "L", "S",
      "C", "H", ";", "1", ";", "N", ";", "S">>

\* '2;N;G;WAHR;A;WAHR; 01;N'
RowSynonym ==
    <<"2", ";", "N", ";", "G", ";", "W", "A", "H", "R", ";", "A", ";", "W",
      "A", "H", "R", ";", " ", "0", "1", ";", "N">>

\* '03;N;G;s;A;WAHR;2;N;S;X'
RowLong ==
    <<"0", "3", ";", "N", ";", "G", ";", "s", ";", "A", ";", "W", "A", "H",
      "R", ";", "2", ";", "N", ";", "S", ";", "X">>

\* '4;N;G;s;A;TRUE;x;N'
RowBadValid ==
    <<"4", ";", "N", ";", "G", ";", "s", ";", "A", ";", "T", "R", "U", "E",
      ";", "x", ";", "N">>

\* 'in.txt'
IN_TXT ==
    <<"i", "n", ".", "t", "x", "t">>

\* 'out.txt'
OUT_TXT ==
    <<"o", "u", "t", ".", "t", "x", "t">>

\* 'in.ZIP'
IN_ZIP ==
    <<"i", "n", ".", "Z", "I", "P">>

\* 'out.zip'
OUT_ZIP ==
    <<"o", "u", "t", ".", "z", "i", "p">>

\* 'data.txt'
DATA_TXT ==
    <<"d", "a", "t", "a", ".", "t", "x", "t">>

\* 'd/Data.CSV'
DATA_CSV ==
    <<"d", "/", "D", "a", "t", "a", ".", "C", "S", "V">>

\* 'readme.md'
README ==
    <<"r", "e", "a", "d", "m", "e", ".", "m", "d">>

InputLines ==
    {OLD_HEADER, LineVersion, LineMetaWahr, LineNoSemicolon, LineBlank,
     RowValid, RowSynonym, RowLong, RowBadValid}

\* the text files of at most MaxLines lines
Files == UNION {[1..n -> InputLines] : n \in 0..MaxLines}

(***************************************************************************)
(* generate_64bit_id: random.randint(a, b) returns any integer of [a, b];  *)
(* the model lets it return the values of RandomSamples that lie there:    *)
(* 0..Draws at the low end and the values around the top of the range.     *)
(***************************************************************************)
TwoPow64 == BigPow2(64)

TenPow10 == BigPow10(10)

RandomSamples ==
    {Big(k) : k \in 0..Draws}
        \cup {BigSub(BigSub(TwoPow64, TenPow10), Big(1)),
              BigSub(TwoPow64, TenPow10),
              BigSub(TwoPow64, Big(1)),
              TwoPow64}

randint(a, b) == {c \in RandomSamples : BigLE(a, c) /\ BigLE(c, b)}

\* faulty variant: the reserved upper range is never excluded
generate_any_64bit_id(exclude_upper_10_billion) ==
    randint(Big(1), BigSub(TwoPow64, Big(1)))

generate_64bit_id(exclude_upper_10_billion) ==
    IF exclude_upper_10_billion
    THEN LET max_val == BigSub(BigSub(TwoPow64, TenPow10), Big(1))
         IN  randint(Big(1), max_val)
    ELSE randint(Big(1), BigSub(TwoPow64, Big(1)))

(***************************************************************************)
(* The state of one run of the program.                                    *)
(***************************************************************************)
VARIABLES
    argv,             \* sys.argv[1:]
    exists,           \* os.path.exists(input_file)
    file,             \* the lines of the text file (the data member, for a ZIP)
    pc,               \* where the run is
    exit_code,        \* the process's exit status, -1 while it runs
    output_file,      \* transform_species_csv's output_file
    line_num,         \* parse_csv_file: lines read so far
    header_found,     \* parse_csv_file
    metadata_lines,   \* parse_csv_file
    data_rows,        \* parse_csv_file
    row_line,         \* history: the line each data row was read from
    new_metadata,     \* transform_species_csv
    old_to_new_id,    \* transform_species_csv: the ID mapping
    used_ids,         \* transform_species_csv
    n_mapped,         \* rows the first pass has handled
    n_transformed,    \* rows the second pass has handled
    transformed_rows, \* transform_species_csv
    out_row,          \* history: the data row each transformed row came from
    warnings,         \* the "Warning: Skipping invalid row" lines printed
    content,          \* the text of output_file
    archive,          \* the member names of the input ZIP
    temp_csv_path,    \* process_zip_file: where the data member was extracted
    scratch,          \* the temporary directory and files that exist
    out_zip           \* the archives written: path, member name, member text

vars ==
    <<argv, exists, file, pc, exit_code, output_file, line_num, header_found,
      metadata_lines, data_rows, row_line, new_metadata, old_to_new_id,
      used_ids, n_mapped, n_transformed, transformed_rows, out_row, warnings,
      content, archive, temp_csv_path, scratch, out_zip>>

parse_vars == <<line_num, header_found, metadata_lines, data_rows, row_line>>

map_vars == <<old_to_new_id, used_ids, n_mapped>>

transform_vars == <<n_transformed, transformed_rows, out_row>>

zip_vars == <<archive, temp_csv_path, scratch, out_zip>>

input_vars == <<argv, exists, file>>

EmptyMap == [k \in {} |-> Big(0)]

InitRun ==
    /\ pc = "main"
    /\ exit_code = -1
    /\ output_file = None
    /\ line_num = 0
    /\ header_found = FALSE
    /\ metadata_lines = <<>>
    /\ data_rows = <<>>
    /\ row_line = <<>>
    /\ new_metadata = <<>>
    /\ old_to_new_id = EmptyMap
    /\ used_ids = {}
    /\ n_mapped = 0
    /\ n_transformed = 0
    /\ transformed_rows = <<>>
    /\ out_row = <<>>
    /\ warnings = <<>>
    /\ content = None
    /\ temp_csv_path = None
    /\ scratch = {}
    /\ out_zip = {}

\* a run on a plain text file
Init ==
    /\ argv \in {<<>>, <<IN_TXT>>, <<IN_TXT, OUT_TXT>>}
    /\ exists \in BOOLEAN
    /\ file \in Files
    /\ archive = <<>>
    /\ InitRun

is_zip_file(file_path) == endswith(lower(file_path), DOT_ZIP)

(***************************************************************************)
(* main                                                                    *)
(***************************************************************************)
Main ==
    /\ pc = "main"
    /\ IF Len(argv) < 1 \/ ~exists
       THEN /\ pc' = "exit"
            /\ exit_code' = 1
            /\ UNCHANGED output_file
       ELSE /\ exit_code' = exit_code
            /\ IF is_zip_file(argv[1])
               THEN /\ pc' = "extract"
                    /\ UNCHANGED output_file
               ELSE /\ pc' = "parse"
                    \* output_file defaults to input_file
                    /\ output_file' = IF Len(argv) > 1 THEN argv[2] ELSE argv[1]
    /\ UNCHANGED <<input_vars, parse_vars, new_metadata, map_vars,
                   transform_vars, warnings, content, zip_vars>>

(***************************************************************************)
(* parse_csv_file, one line at a time                                      *)
(***************************************************************************)
\* faulty variant: one of the three column names is enough
LooksLikeHeaderAny(line) ==
    Contains(line, SPECIES_NR) \/ Contains(line, NAME) \/ Contains(line, GENUS)

\* faulty variant: a row of exactly 8 fields is dropped
enough_columns_above_8(parts) == Len(parts) > 8

\* len(parts) >= 8
enough_columns(parts) == Len(parts) >= 8

\* 'SPECIES_NR' in line and 'NAME' in line and 'GENUS' in line
LooksLikeHeader(line) ==
    Contains(line, SPECIES_NR) /\ Contains(line, NAME) /\ Contains(line, GENUS)

ParseLine ==
    /\ pc = "parse"
    /\ line_num < Len(file)
    /\ line_num' = line_num + 1
    /\ LET line == strip(file[line_num + 1])
       IN  IF line = <<>>
           THEN UNCHANGED <<header_found, metadata_lines, data_rows, row_line>>
           ELSE IF Contains(line, SEMI) /\ ~header_found
           THEN IF LooksLikeHeader(line)
                THEN /\ header_found' = TRUE
                     /\ UNCHANGED <<metadata_lines, data_rows, row_line>>
                ELSE /\ metadata_lines' = Append(metadata_lines, line)
                     /\ UNCHANGED <<header_found, data_rows, row_line>>
           ELSE IF header_found
           THEN LET parts == split(line, ";")
                IN  IF enough_columns(parts)
                    THEN /\ data_rows' = Append(data_rows, parts)
                         /\ row_line' = Append(row_line, line_num + 1)
                         /\ UNCHANGED <<header_found, metadata_lines>>
                    ELSE UNCHANGED <<header_found, metadata_lines, data_rows,
                                     row_line>>
           ELSE UNCHANGED <<header_found, metadata_lines, data_rows, row_line>>
    /\ UNCHANGED <<input_vars, pc, exit_code, output_file, new_metadata,
                   map_vars, transform_vars, warnings, content, zip_vars>>

\* the end of the file: parse_csv_file returns
ParseReturn ==
    /\ pc = "parse"
    /\ line_num = Len(file)
    /\ pc' = "metadata"
    /\ UNCHANGED <<input_vars, exit_code, output_file, parse_vars,
                   new_metadata, map_vars, transform_vars, warnings, content,
                   zip_vars>>

(***************************************************************************)
(* transform_species_csv                                                   *)
(***************************************************************************)
\* the run was started on a ZIP archive
zip_run == Len(argv) >= 1 /\ is_zip_file(argv[1])

\* faulty variant: the key of every metadata line is renamed
update_metadata_line_any_key(line) ==
    LET parts == split1(line, ";")
    IN  IF Len(parts) = 2 THEN SPECIES_LU \o SEMI \o parts[2] ELSE line

\* one metadata line, SPECIES_LU_VERSION renamed to SPECIES_LU
update_metadata_line(line) ==
    IF startswith(line, SPECIES_LU_VERSION)
    THEN LET parts == split1(line, ";")
         IN  IF Len(parts) = 2
             THEN SPECIES_LU \o SEMI \o parts[2]
             ELSE replace(line, SPECIES_LU_VERSION, SPECIES_LU)
    ELSE line

UpdateMetadata ==
    /\ pc = "metadata"
    /\ new_metadata' =
           [i \in 1..Len(metadata_lines) |-> update_metadata_line(metadata_lines[i])]
    /\ pc' = IF Len(data_rows) = 0 THEN "write" ELSE "map"
    /\ UNCHANGED <<input_vars, exit_code, output_file, parse_vars, map_vars,
                   transform_vars, warnings, content, zip_vars>>

\* new_id = generate_64bit_id(); while new_id in used_ids: new_id = generate_64bit_id()
fresh_ids(used) == {new_id \in generate_64bit_id(TRUE) : new_id \notin used}

\* faulty variant: a new ID is drawn even for an ID that is already mapped
assign_id_always(m, old) ==
    {[map  |-> [k \in DOMAIN m.map \cup {old} |->
                   IF k = old THEN new_id ELSE m.map[k]],
      used |-> m.used \cup {new_id}] : new_id \in fresh_ids(m.used)}

\* "if old not in old_to_new_id": the mappings and used sets the draw can lead to
assign_id(m, old) ==
    IF old \in DOMAIN m.map
    THEN {m}
    ELSE {[map  |-> [k \in DOMAIN m.map \cup {old} |->
                        IF k = old THEN new_id ELSE m.map[k]],
           used |-> m.used \cup {new_id}] : new_id \in fresh_ids(m.used)}

\* the first pass raises ValueError on this row
map_row_fails(row) ==
    \/ ~IntParses(row[1])
    \/ Len(row) > 6 /\ ~IntParses(row[7])

\* faulty variant: the first pass maps the own-ID only
map_row_own_only(m, row) ==
    IF Len(row) >= 7 /\ ~map_row_fails(row)
    THEN assign_id(m, IntValue(row[1]))
    ELSE {m}

\* the first pass on one row
map_row(m, row) ==
    IF Len(row) >= 7 /\ ~map_row_fails(row)
    THEN LET old_species_nr == IntValue(row[1])
             old_valid_nr == IF Len(row) > 6 THEN IntValue(row[7])
                             ELSE old_species_nr
         IN  UNION {assign_id(m1, old_valid_nr) : m1 \in assign_id(m, old_species_nr)}
    ELSE {m}

MapRow ==
    /\ pc = "map"
    /\ n_mapped < Len(data_rows)
    /\ LET row == data_rows[n_mapped + 1]
       IN  /\ \E m \in map_row([map |-> old_to_new_id, used |-> used_ids], row) :
                 /\ old_to_new_id' = m.map
                 /\ used_ids' = m.used
           /\ warnings' = IF Len(row) >= 7 /\ map_row_fails(row)
                          THEN Append(warnings, <<"map", n_mapped + 1>>)
                          ELSE warnings
    /\ n_mapped' = n_mapped + 1
    /\ pc' = IF n_mapped + 1 = Len(data_rows) THEN "transform" ELSE "map"
    /\ UNCHANGED <<input_vars, exit_code, output_file, parse_vars,
                   new_metadata, transform_vars, content, zip_vars>>

\* the second pass raises ValueError on this row
transform_row_fails(row) == ~IntParses(row[1]) \/ ~IntParses(row[7])

\* old_to_new_id[...] raises KeyError, which the loop does not catch
lookup_fails(row) ==
    \/ IntValue(row[1]) \notin DOMAIN old_to_new_id
    \/ IntValue(row[7]) \notin DOMAIN old_to_new_id

\* faulty variant: the valid-ID column is filled from the own-ID
new_row_valid_from_own(row) ==
    LET new_species_nr == old_to_new_id[IntValue(row[1])]
    IN  <<BigStr(new_species_nr), row[2], row[3], row[4], row[6],
          BigStr(new_species_nr), row[8], <<>>, <<>>>>

\* faulty variant: the fields after VALID_NAME are copied to the output
new_row_keep_rest(row) ==
    <<BigStr(old_to_new_id[IntValue(row[1])]), row[2], row[3], row[4], row[6],
      BigStr(old_to_new_id[IntValue(row[7])])>> \o SubSeq(row, 8, Len(row))
          \o <<<<>>, <<>>>>

new_row(row) ==
    LET old_species_nr == IntValue(row[1])
        name == row[2]
        genus == row[3]
        species == row[4]
        synonym == row[6]
        old_valid_nr == IntValue(row[7])
        valid_name == row[8]
        new_species_nr == old_to_new_id[old_species_nr]
        new_valid_nr == old_to_new_id[old_valid_nr]
        parent_nr == <<>>
        parent_name == <<>>
    IN  <<BigStr(new_species_nr), name, genus, species, synonym,
          BigStr(new_valid_nr), valid_name, parent_nr, parent_name>>

TransformRow ==
    /\ pc = "transform"
    /\ n_transformed < Len(data_rows)
    /\ n_transformed' = n_transformed + 1
    /\ LET row == data_rows[n_transformed + 1]
           next_pc == IF n_transformed + 1 = Len(data_rows)
                      THEN "write" ELSE "transform"
       IN  IF Len(row) < 8
           THEN /\ pc' = next_pc
                /\ UNCHANGED <<exit_code, transformed_rows, out_row, warnings>>
           ELSE IF transform_row_fails(row)
           THEN /\ warnings' = Append(warnings, <<"transform", n_transformed + 1>>)
                /\ pc' = next_pc
                /\ UNCHANGED <<exit_code, transformed_rows, out_row>>
           ELSE IF lookup_fails(row)
           THEN /\ pc' = "crashed"
                /\ exit_code' = 1
                /\ UNCHANGED <<transformed_rows, out_row, warnings>>
           ELSE /\ transformed_rows' = Append(transformed_rows, new_row(row))
                /\ out_row' = Append(out_row, n_transformed + 1)
                /\ pc' = next_pc
                /\ UNCHANGED <<exit_code, warnings>>
    /\ UNCHANGED <<input_vars, output_file, parse_vars, new_metadata, map_vars,
                   content, zip_vars>>

\* f.write(line + '\n') for each line
RECURSIVE write_lines(_)
write_lines(lines) ==
    IF lines = <<>> THEN <<>>
    ELSE lines[1] \o NL \o write_lines(Tail(lines))

\* the text the first "with open(output_file, 'w')" block writes
written_text(metadata, rows) ==
    write_lines(metadata) \o write_lines(<<NEW_HEADER>>)
        \o write_lines([i \in 1..Len(rows) |-> join(rows[i], SEMI)])

WriteOutput ==
    /\ pc = "write"
    /\ content' = written_text(new_metadata, transformed_rows)
    /\ scratch' = IF zip_run THEN scratch \cup {output_file} ELSE scratch
    /\ pc' = "normalize"
    /\ UNCHANGED <<input_vars, exit_code, output_file, parse_vars,
                   new_metadata, map_vars, transform_vars, warnings, archive,
                   temp_csv_path, out_zip>>

\* content.replace(';WAHR;', ';TRUE;').replace(';FALSCH;', ';FALSE;')
normalize_booleans(text) == replace(replace(text, WAHR, TRUE_), FALSCH, FALSE_)

NormalizeBooleans ==
    /\ pc = "normalize"
    /\ content' = normalize_booleans(content)
    /\ IF zip_run
       THEN pc' = "create_zip" /\ UNCHANGED exit_code
       ELSE pc' = "done" /\ exit_code' = 0
    /\ UNCHANGED <<input_vars, output_file, parse_vars, new_metadata, map_vars,
                   transform_vars, warnings, zip_vars>>

(***************************************************************************)
(* ZIP archives: extract_csv_from_zip, create_transformed_zip,             *)
(* process_zip_file                                                        *)
(***************************************************************************)
\* the directory tempfile.mkdtemp() makes
TEMP_DIR ==
    <<"t", "m", "p">>

\* '_transformed'
TRANSFORMED ==
    <<"_", "t", "r", "a", "n", "s", "f", "o", "r", "m", "e", "d">>

\* os.path.join(a, b)
path_join(a, b) == a \o <<"/">> \o b

\* os.path.basename(p)
basename(p) == LET parts == split(p, "/") IN parts[Len(parts)]

\* f.lower().endswith(('.csv', '.txt'))
is_data_file(f) == endswith(lower(f), DOT_CSV) \/ endswith(lower(f), DOT_TXT)

\* the members of the archive that are data files, in archive order
data_files(names) == SelectSeq(names, is_data_file)

\* the first path component: what os.listdir(temp_dir) shows of a member
top_level(member) == split(member, "/")[1]

\* the position of the last "." of a file name that starts a suffix, or 0
suffix_at(name) ==
    LET dots == {i \in 2..Len(name) : name[i] = "."}
    IN  IF dots = {} THEN 0 ELSE CHOOSE i \in dots : \A j \in dots : j <= i

\* zip_path.with_name(f"{zip_path.stem}_transformed{zip_path.suffix}")
default_zip_path(zip_path) ==
    LET i == suffix_at(zip_path)
    IN  IF i = 0 THEN zip_path \o TRANSFORMED
        ELSE SubSeq(zip_path, 1, i - 1) \o TRANSFORMED
                 \o SubSeq(zip_path, i, Len(zip_path))

\* the run ends in sys.exit(1)
Exit1 == pc' = "exit" /\ exit_code' = 1

\* extract_csv_from_zip, and process_zip_file up to the call of the transform
ExtractCsvFromZip ==
    /\ pc = "extract"
    /\ \E valid_zip \in BOOLEAN, standard_ok \in BOOLEAN,
          target_opened \in BOOLEAN, extractall_ok \in BOOLEAN :
         LET found == data_files(archive)
             data_filename == found[1]
             standard_path == path_join(TEMP_DIR, basename(data_filename))
             extracted == {path_join(TEMP_DIR, archive[i]) : i \in 1..Len(archive)}
             extracted_files ==
                 {f \in {top_level(archive[i]) : i \in 1..Len(archive)} :
                      is_data_file(f)}
             partial == IF target_opened THEN {standard_path} ELSE {}
             \* the extracted file's first line is blank, or there is none
             empty == file = <<>> \/ strip(file[1]) = <<>>
         IN  IF ~valid_zip \/ found = <<>>
             THEN Exit1 /\ UNCHANGED <<scratch, temp_csv_path, output_file>>
             ELSE IF standard_ok
             THEN /\ scratch' = {TEMP_DIR, standard_path}
                  /\ temp_csv_path' = standard_path
                  /\ IF empty
                     THEN Exit1 /\ UNCHANGED output_file
                     ELSE /\ pc' = "parse"
                          /\ output_file' = standard_path \o TRANSFORMED
                          /\ UNCHANGED exit_code
             ELSE IF ~extractall_ok
             THEN /\ scratch' = {TEMP_DIR} \cup partial
                  /\ Exit1
                  /\ UNCHANGED <<temp_csv_path, output_file>>
             ELSE IF extracted_files = {}
             THEN /\ scratch' = {TEMP_DIR} \cup partial \cup extracted
                  /\ Exit1
                  /\ UNCHANGED <<temp_csv_path, output_file>>
             ELSE \E first \in extracted_files :
                  /\ scratch' = {TEMP_DIR} \cup partial \cup extracted
                  /\ temp_csv_path' = path_join(TEMP_DIR, first)
                  /\ IF empty
                     THEN Exit1 /\ UNCHANGED output_file
                     ELSE /\ pc' = "parse"
                          /\ output_file' = path_join(TEMP_DIR, first) \o TRANSFORMED
                          /\ UNCHANGED exit_code
    /\ UNCHANGED <<input_vars, parse_vars, new_metadata, map_vars,
                   transform_vars, warnings, content, archive, out_zip>>

CreateTransformedZip ==
    /\ pc = "create_zip"
    /\ LET original_data_name == data_files(archive)[1]
           output_zip_path == IF Len(argv) > 1 /\ argv[2] # <<>>
                              THEN argv[2]
                              ELSE default_zip_path(argv[1])
       IN  out_zip' = out_zip \cup {[path |-> output_zip_path,
                                     name |-> original_data_name,
                                     text |-> content]}
    /\ pc' = "cleanup"
    /\ UNCHANGED <<input_vars, exit_code, output_file, parse_vars,
                   new_metadata, map_vars, transform_vars, warnings, content,
                   archive, temp_csv_path, scratch>>

\* os.unlink(temp_csv_path); os.unlink(temp_output_path)
CleanupTemporaryFiles ==
    /\ pc = "cleanup"
    /\ scratch' = scratch \ {temp_csv_path, output_file}
    /\ pc' = "done"
    /\ exit_code' = 0
    /\ UNCHANGED <<input_vars, output_file, parse_vars, new_metadata,
                   map_vars, transform_vars, warnings, content, archive,
                   temp_csv_path, out_zip>>

Next ==
    \/ Main
    \/ ParseLine
    \/ ParseReturn
    \/ UpdateMetadata
    \/ MapRow
    \/ TransformRow
    \/ WriteOutput
    \/ NormalizeBooleans

Spec == Init /\ [][Next]_vars

(***************************************************************************)
(* Runs on ZIP archives (and, beside them, on a plain file): a few text    *)
(* files, each packed in one of three archives.                            *)
(***************************************************************************)
ZipFiles ==
    {<<>>,
     <<LineBlank, OLD_HEADER, RowValid>>,
     <<OLD_HEADER, RowValid, RowSynonym>>,
     <<LineVersion, OLD_HEADER, RowBadValid>>}

Archives == {<<DATA_TXT>>, <<README, DATA_CSV>>, <<README>>}

ZipInit ==
    /\ \/ argv \in {<<IN_ZIP>>, <<IN_ZIP, OUT_ZIP>>} /\ archive \in Archives
       \/ argv = <<IN_TXT>> /\ archive = <<>>
    /\ exists \in BOOLEAN
    /\ file \in ZipFiles
    /\ InitRun

ZipNext ==
    \/ Next
    \/ ExtractCsvFromZip
    \/ CreateTransformedZip
    \/ CleanupTemporaryFiles

ZipSpec == ZipInit /\ [][ZipNext]_vars

(***************************************************************************)
(* What the properties below speak of.                                     *)
(***************************************************************************)
\* 2^64 - 10^10 - 1 = 18446744063709551615
MaxNewId == <<18, 446744063, 709551615>>

\* the first pass over the rows has finished
MapPassDone == pc \in {"transform", "write", "normalize", "create_zip", "cleanup", "done"}

\* the second pass over the rows has finished
TransformPassDone == pc \in {"write", "normalize", "create_zip", "cleanup", "done"}

\* field 0 and field 6 of a raw row both parse as integers
BothParse(row) == IntParses(row[1]) /\ IntParses(row[7])

\* the lines of the output file
OutLines == split(content, "\n")

\* the fields of the output line of the k-th transformed row
OutFields(k) == split(OutLines[Len(new_metadata) + 1 + k], ";")

\* the raw row the k-th transformed row was made from
RawOf(k) == data_rows[out_row[k]]

Range(f) == {f[x] : x \in DOMAIN f}

\* the line that is the header: the first non-blank line with ';' and the
\* three column names, or 0
HeaderLineOf(f) ==
    LET hs == {i \in 1..Len(f) :
                   Contains(strip(f[i]), SEMI) /\ Contains(strip(f[i]), SPECIES_NR)
                       /\ Contains(strip(f[i]), NAME) /\ Contains(strip(f[i]), GENUS)}
    IN  IF hs = {} THEN 0 ELSE CHOOSE i \in hs : \A j \in hs : i <= j

\* the non-blank lines after the header
DataLinesOf(f) ==
    IF HeaderLineOf(f) = 0 THEN {}
    ELSE {i \in (HeaderLineOf(f) + 1)..Len(f) : strip(f[i]) # <<>>}

\* the data lines the row-count law says are kept
KeptLinesOf(f) ==
    {i \in DataLinesOf(f) :
         LET parts == split(strip(f[i]), ";")
         IN  Len(parts) >= 8 /\ IntParses(parts[1]) /\ IntParses(parts[7])}

(***************************************************************************)
(* C1: at every point of the ID-mapping pass (and after it) the mapping is *)
(* injective, the used-ID set is exactly the set of mapped new IDs, and    *)
(* every new ID lies in [1, 2^64 - 10^10 - 1].                             *)
(***************************************************************************)
C1_InjectiveInRange ==
    /\ \A a, b \in DOMAIN old_to_new_id :
           a # b => old_to_new_id[a] # old_to_new_id[b]
    /\ used_ids = Range(old_to_new_id)
    /\ \A n \in used_ids : BigLE(Big(1), n) /\ BigLE(n, MaxNewId)

\* three legacy IDs are mapped, one of them to the largest legal new ID
C1_Witness ==
    /\ MapPassDone
    /\ Cardinality(DOMAIN old_to_new_id) = 3
    /\ MaxNewId \in used_ids

(***************************************************************************)
(* C2: referential integrity.  Each transformed row carries the image of   *)
(* its legacy own-ID and the image of its legacy valid-ID under the one    *)
(* mapping; so for output rows r and s, new-valid-ID(s) = new-own-ID(r)    *)
(* exactly when legacy valid-ID(s) = legacy own-ID(r) as integers, and a   *)
(* row whose legacy own-ID equals its valid-ID has new-own-ID =            *)
(* new-valid-ID.                                                           *)
(***************************************************************************)
C2_ReferentialIntegrity ==
    \A r \in 1..Len(transformed_rows) :
        /\ transformed_rows[r][1] = BigStr(old_to_new_id[IntValue(RawOf(r)[1])])
        /\ transformed_rows[r][6] = BigStr(old_to_new_id[IntValue(RawOf(r)[7])])
        /\ IntValue(RawOf(r)[1]) = IntValue(RawOf(r)[7])
               => transformed_rows[r][1] = transformed_rows[r][6]
        /\ \A q \in 1..Len(transformed_rows) :
               (transformed_rows[q][6] = transformed_rows[r][1])
                   <=> (IntValue(RawOf(q)[7]) = IntValue(RawOf(r)[1]))

\* a synonym row points to another row, whose ID it spells differently
C2_Witness ==
    \E r, q \in 1..Len(transformed_rows) :
        /\ r # q
        /\ transformed_rows[q][6] = transformed_rows[r][1]
        /\ transformed_rows[q][1] # transformed_rows[q][6]
        /\ RawOf(q)[7] # RawOf(r)[1]

(***************************************************************************)
(* C3: row-count law.  Of the non-blank lines after the header, exactly    *)
(* those with at least 8 fields whose field 0 and field 6 parse as         *)
(* integers produce an output row, one each; the output never has more     *)
(* rows than the input has data lines, and no malformed row aborts the     *)
(* run.                                                                    *)
(***************************************************************************)
C3_RowCountLaw ==
    /\ pc # "crashed"
    /\ TransformPassDone =>
           /\ {row_line[out_row[k]] : k \in 1..Len(out_row)} = KeptLinesOf(file)
           /\ Len(transformed_rows) = Cardinality(KeptLinesOf(file))
           /\ Len(transformed_rows) <= Cardinality(DataLinesOf(file))
    /\ pc = "done" =>
           Len(OutLines) = Len(new_metadata) + 1 + Cardinality(KeptLinesOf(file)) + 1

\* a run that kept one row and dropped another for an unparseable ID
C3_Witness ==
    /\ pc = "done"
    /\ Cardinality(KeptLinesOf(file)) >= 1
    /\ Cardinality(DataLinesOf(file)) > Cardinality(KeptLinesOf(file))
    /\ Len(warnings) >= 1

(***************************************************************************)
(* C4: metadata passthrough.  In the final output file the metadata lines  *)
(* come first, in input order, before the header; a line that begins with  *)
(* SPECIES_LU_VERSION reads 'SPECIES_LU;' followed by what followed its    *)
(* first ';', and every other metadata line is byte-identical.             *)
(***************************************************************************)
\* what the passthrough rule makes of one metadata line
PassedThrough(line) ==
    IF startswith(line, SPECIES_LU_VERSION) /\ Contains(line, SEMI)
    THEN SPECIES_LU \o SEMI \o split1(line, ";")[2]
    ELSE line

\* the metadata line holds a token the boolean substitution rewrites
HasBooleanToken(line) == Contains(line, WAHR) \/ Contains(line, FALSCH)

\* C4 as stated: the passthrough rule holds of every metadata line
C4_AsStated ==
    pc = "done" =>
        /\ Len(OutLines) > Len(metadata_lines)
        /\ OutLines[Len(metadata_lines) + 1] = NEW_HEADER
        /\ \A i \in 1..Len(metadata_lines) :
               OutLines[i] = PassedThrough(metadata_lines[i])

\* C4 as amended: the passthrough rule holds of the metadata lines that
\* hold neither ';WAHR;' nor ';FALSCH;'; a line that holds one is written
\* as the rule says and then has ';WAHR;' replaced by ';TRUE;' and
\* ';FALSCH;' by ';FALSE;', as str.replace does it
C4_MetadataPassthrough ==
    pc = "done" =>
        /\ Len(OutLines) > Len(metadata_lines)
        /\ OutLines[Len(metadata_lines) + 1] = NEW_HEADER
        /\ \A i \in 1..Len(metadata_lines) :
               IF HasBooleanToken(metadata_lines[i])
               THEN OutLines[i] =
                        replace(replace(PassedThrough(metadata_lines[i]),
                                        WAHR, TRUE_), FALSCH, FALSE_)
               ELSE OutLines[i] = PassedThrough(metadata_lines[i])

\* a version line and a line without boolean tokens were passed through
C4_Witness ==
    /\ pc = "done"
    /\ header_found
    /\ \E i, j \in 1..Len(metadata_lines) :
           /\ startswith(metadata_lines[i], SPECIES_LU_VERSION)
           /\ ~startswith(metadata_lines[j], SPECIES_LU_VERSION)
           /\ ~HasBooleanToken(metadata_lines[j])

(***************************************************************************)
(* C5: boolean normalization.  In the final output file the synonym field  *)
(* of a row reads TRUE where the legacy flag was WAHR and FALSE where it   *)
(* was FALSCH, whatever the neighbouring fields hold.                      *)
(***************************************************************************)
C5_BooleanNormalization ==
    pc = "done" =>
        \A k \in 1..Len(transformed_rows) :
            /\ RawOf(k)[6] = <<"W", "A", "H", "R">>
                   => OutFields(k)[5] = <<"T", "R", "U", "E">>
            /\ RawOf(k)[6] = <<"F", "A", "L", "S", "C", "H">>
                   => OutFields(k)[5] = <<"F", "A", "L", "S", "E">>

(***************************************************************************)
(* C6: output layout.  The file is the metadata lines in input order, one  *)
(* header line, then one line per transformed row in input order; every    *)
(* data line has 9 fields, the last two empty, whether the raw row had 8,  *)
(* 9 or more fields.                                                       *)
(***************************************************************************)
C6_OutputLayout ==
    pc = "done" =>
        LET nm == Len(new_metadata)
            nr == Len(transformed_rows)
        IN  /\ Len(OutLines) = nm + 1 + nr + 1
            /\ OutLines[nm + 1 + nr + 1] = <<>>
            /\ \A i \in 1..nm : OutLines[i] = normalize_booleans(new_metadata[i])
            /\ OutLines[nm + 1] = NEW_HEADER
            /\ \A i \in 1..Len(OutLines) : OutLines[i] = NEW_HEADER => i = nm + 1
            /\ \A k \in 1..nr :
                   /\ Len(OutFields(k)) = 9
                   /\ OutFields(k)[8] = <<>>
                   /\ OutFields(k)[9] = <<>>
                   /\ OutFields(k)[1] = BigStr(old_to_new_id[IntValue(RawOf(k)[1])])
                   /\ OutFields(k)[2] = RawOf(k)[2]
                   /\ OutFields(k)[3] = RawOf(k)[3]
                   /\ OutFields(k)[6] = BigStr(old_to_new_id[IntValue(RawOf(k)[7])])
                   /\ OutFields(k)[7] = RawOf(k)[8]
            /\ \A k \in 1..(nr - 1) : row_line[out_row[k]] < row_line[out_row[k + 1]]

\* metadata, the header and a row made from a raw row of 10 fields
C6_Witness ==
    /\ pc = "done"
    /\ Len(new_metadata) >= 1
    /\ \E k \in 1..Len(transformed_rows) : Len(RawOf(k)) = 10

(***************************************************************************)
(* C7: mapping totality.  After the ID-mapping pass every legacy ID that   *)
(* is the own-ID or the valid-ID of a raw row is a key of the mapping, and *)
(* a key's new ID is never reassigned.                                     *)
(***************************************************************************)
\* C7 as stated: the IDs of every raw row the parser returned are keys
C7_AsStated ==
    MapPassDone =>
        \A i \in 1..Len(data_rows) :
            /\ IntParses(data_rows[i][1])
                   => IntValue(data_rows[i][1]) \in DOMAIN old_to_new_id
            /\ IntParses(data_rows[i][7])
                   => IntValue(data_rows[i][7]) \in DOMAIN old_to_new_id

\* C7 as amended: the IDs of the raw rows whose field 0 and field 6 both
\* parse are keys, and no key's new ID is ever reassigned
C7_MappingTotality ==
    /\ [](MapPassDone =>
              \A i \in 1..Len(data_rows) :
                  BothParse(data_rows[i]) =>
                      /\ IntValue(data_rows[i][1]) \in DOMAIN old_to_new_id
                      /\ IntValue(data_rows[i][7]) \in DOMAIN old_to_new_id)
    /\ [][\A k \in DOMAIN old_to_new_id :
              k \in DOMAIN old_to_new_id' /\ old_to_new_id'[k] = old_to_new_id[k]]_vars

\* the pass mapped a row's IDs and skipped a row whose own-ID parses
C7_Witness ==
    /\ MapPassDone
    /\ \E i, j \in 1..Len(data_rows) :
           /\ BothParse(data_rows[i])
           /\ IntValue(data_rows[i][1]) # IntValue(data_rows[i][7])
           /\ IntParses(data_rows[j][1]) /\ ~IntParses(data_rows[j][7])
           /\ IntValue(data_rows[j][1]) \notin DOMAIN old_to_new_id

(***************************************************************************)
(* C8: in the row-transform pass the IDs of every row whose field 0 and    *)
(* field 6 parse are keys of the mapping, so no lookup fails; a row the    *)
(* mapping pass skipped is skipped by the transform pass too, and gives    *)
(* the mapping no key.                                                     *)
(***************************************************************************)
\* the rows among the first n that the mapping pass does not skip
MappedRows(n) == {i \in 1..n : BothParse(data_rows[i])}

\* C8: no lookup fails; the rows the mapping pass skips are the rows the
\* transform pass skips, and only the other rows give the mapping its keys
C8_LookupNeverFails ==
    /\ pc # "crashed"
    /\ MapPassDone =>
           \A i \in 1..Len(data_rows) :
               BothParse(data_rows[i]) =>
                   /\ IntValue(data_rows[i][1]) \in DOMAIN old_to_new_id
                   /\ IntValue(data_rows[i][7]) \in DOMAIN old_to_new_id
    /\ \A i \in 1..n_mapped :
           (\E w \in 1..Len(warnings) : warnings[w] = <<"map", i>>)
               <=> ~BothParse(data_rows[i])
    /\ \A i \in 1..n_transformed :
           (\E w \in 1..Len(warnings) : warnings[w] = <<"map", i>>) =>
               /\ \E w \in 1..Len(warnings) : warnings[w] = <<"transform", i>>
               /\ \A k \in 1..Len(out_row) : out_row[k] # i
    /\ DOMAIN old_to_new_id =
           UNION {{IntValue(data_rows[i][1]), IntValue(data_rows[i][7])} :
                      i \in MappedRows(n_mapped)}

\* a finished run that transformed one row and skipped another in both passes
C8_Witness ==
    /\ pc = "done"
    /\ Len(transformed_rows) >= 1
    /\ \E i \in 1..Len(data_rows) :
           /\ \E w \in 1..Len(warnings) : warnings[w] = <<"map", i>>
           /\ \E w \in 1..Len(warnings) : warnings[w] = <<"transform", i>>

(***************************************************************************)
(* C9: parse_csv_file is a two-state machine over the non-blank lines.  It *)
(* starts before the header, passes the header on the first line that has  *)
(* ';' and the substrings SPECIES_NR, NAME and GENUS, and never goes back.  *)
(* Metadata lines are appended only before the header (lines without ';'   *)
(* are ignored there), data rows only after it, the header line is stored  *)
(* as neither, and any later line that looks like a header or like         *)
(* metadata is treated as a data line.                                     *)
(***************************************************************************)
\* the step reads one line of the file
ReadsLine == pc = "parse" /\ line_num' = line_num + 1

\* the line the step reads, stripped
LineRead == strip(file[line_num + 1])

\* C9: before-header is the initial state, the header line is the only
\* transition, and each state stores only its own kind of line
C9_TwoStateParser ==
    /\ ~header_found /\ metadata_lines = <<>> /\ data_rows = <<>>
    /\ [][/\ header_found => header_found'
          /\ ~ReadsLine => UNCHANGED <<header_found, metadata_lines, data_rows>>
          /\ ReadsLine =>
                 \* the one transition, on the header line, which is not stored
                 /\ (~header_found /\ header_found')
                        <=> /\ ~header_found
                            /\ Contains(LineRead, SEMI)
                            /\ Contains(LineRead, SPECIES_NR)
                            /\ Contains(LineRead, NAME)
                            /\ Contains(LineRead, GENUS)
                 /\ header_found' # header_found
                        => UNCHANGED <<metadata_lines, data_rows>>
                 \* before the header: metadata, or nothing
                 /\ ~header_found =>
                        /\ data_rows' = data_rows
                        /\ metadata_lines' =
                               IF Contains(LineRead, SEMI) /\ ~header_found'
                               THEN Append(metadata_lines, LineRead)
                               ELSE metadata_lines
                 \* after the header: data, or nothing
                 /\ header_found =>
                        /\ metadata_lines' = metadata_lines
                        /\ data_rows' =
                               IF LineRead # <<>> /\ Len(split(LineRead, ";")) >= 8
                               THEN Append(data_rows, split(LineRead, ";"))
                               ELSE data_rows]_vars

\* after the header, a second header line was stored as a data row and a
\* line that would have been metadata was not stored as metadata
C9_Witness ==
    /\ pc = "parse"
    /\ line_num = 3
    /\ header_found
    /\ metadata_lines = <<>>
    /\ data_rows = <<split(OLD_HEADER, ";")>>
    /\ \E i \in 2..3 : strip(file[i]) = LineVersion

(***************************************************************************)
(* C10: when the processing of a ZIP archive completes normally, nothing   *)
(* of the scratch files and the scratch directory it made remains.         *)
(***************************************************************************)
C10_NoScratchLeft == (pc = "done" /\ zip_run) => scratch = {}
====
